---- MODULE Spec2Model ----
(***************************************************************************)
(* A model of the spin mutex of src/src/lib.rs: SpinMutex<T> (an           *)
(* AtomicBool `lock` and an UnsafeCell<T> `data`), SpinMutex::lock (a      *)
(* compare_exchange polling loop), and SpinMutexGuard (from, deref,        *)
(* deref_mut, drop).  Threads run small client programs (a list of         *)
(* critical sections each) against one shared mutex.                       *)
(*                                                                         *)
(* Payloads are integers; the string payloads "a", "b", "c" of the reuse   *)
(* scenario are written as their code points 97, 98, 99.                   *)
(***************************************************************************)
EXTENDS Integers, Sequences, FiniteSets, TLC

\* Number of client threads sharing the mutex.
NumThreads == 2

\* Largest number of guarded increments per thread in the counter workload.
MaxIncrements == 1

Threads == 1..NumThreads

VARIABLES
    lock,       \* SpinMutex.lock: the AtomicBool flag (FALSE = Unlocked)
    data,       \* SpinMutex.data: the protected payload
    prev,       \* the payload before the latest write (what a racing read may still see)
    pc,         \* per thread: where it is in its program
    res,        \* per thread: the Result of its latest compare_exchange, <<>> before any
    seen,       \* per thread: the value its latest deref read, <<>> before any
    todo,       \* per thread: the critical sections it still has to run
    fresh,      \* per thread: its view of memory includes the latest write to data
    relFresh,   \* the view published with the flag's current value includes that write
    raced,      \* an unsynchronised (racing) access to data has happened
    nAcquired,  \* number of compare_exchange calls that succeeded so far
    nReleased,  \* number of guard drops so far
    scenario    \* which client workload this run executes

vars == <<lock, data, prev, pc, res, seen, todo, fresh, relFresh, raced,
          nAcquired, nReleased, scenario>>

(***************************************************************************)
(* Client workloads.                                                       *)
(***************************************************************************)
Inc == [kind |-> "inc", val |-> 0]
Get == [kind |-> "get", val |-> 0]
SetTo(v) == [kind |-> "set", val |-> v]

Repeat(op, n) == [i \in 1..n |-> op]

\* N threads, each performing m guarded increments on a counter that starts at 0.
CounterScenario(m) ==
    [name |-> "counter", m |-> m, data |-> 0,
     todo |-> [t \in Threads |-> Repeat(Inc, m)]]

\* One thread locks twice in a row: "a" -> "b", then -> "c".
ReuseScenario ==
    [name |-> "reuse", m |-> 0, data |-> 97,
     todo |-> [t \in Threads |-> IF t = 1 THEN <<SetTo(98), SetTo(99)>> ELSE <<>>]]

\* tests::it_works: thread 1 (A) reads under the lock, thread 2 (B) writes 5.
ItWorksScenario ==
    [name |-> "it_works", m |-> 0, data |-> 0,
     todo |-> [t \in Threads |-> IF t = 1 THEN <<Get>>
                                 ELSE IF t = 2 THEN <<SetTo(5)>> ELSE <<>>]]

Scenarios ==
    {CounterScenario(m) : m \in 1..MaxIncrements} \cup {ReuseScenario, ItWorksScenario}

(***************************************************************************)
(* std::sync::atomic::Ordering, as used by the two atomic operations.      *)
(***************************************************************************)
LockSuccessOrdering == "Release"
LockFailureOrdering == "Relaxed"
DropStoreOrdering == "Release"

HasAcquire(o) == o \in {"Acquire", "AcqRel", "SeqCst"}
HasRelease(o) == o \in {"Release", "AcqRel", "SeqCst"}

(***************************************************************************)
(* SpinMutex::new                                                          *)
(***************************************************************************)
\* A variant of New that starts with the flag set.
New_Locked(v) == [lock |-> TRUE, data |-> v]

New(v) == [lock |-> FALSE, data |-> v]

(***************************************************************************)
(* AtomicBool::compare_exchange(current, new, ..) on a flag holding cur:   *)
(* Ok(previous value) and the flag set to new when cur = current,          *)
(* Err(actual value) and the flag untouched otherwise.                     *)
(***************************************************************************)
\* A variant of CasResult that always reports success and stores new (a
\* plain swap in place of the compare-and-swap).
CasResult_AlwaysOk(cur, current, new) == [ok |-> TRUE, val |-> cur, flag |-> new]

\* A variant of CasResult whose failed exchange writes the expected value
\* into the flag instead of leaving it alone.
CasResult_ClearsOnFailure(cur, current, new) ==
    [ok |-> (cur = current), val |-> cur, flag |-> IF cur = current THEN new ELSE current]

CasResult(cur, current, new) ==
    [ok |-> (cur = current), val |-> cur, flag |-> IF cur = current THEN new ELSE cur]

\* The call lock makes: compare_exchange(false, true, ..).
LockCas(cur) == CasResult(cur, FALSE, TRUE)

\* A variant of LoopExit that leaves the loop on a failed exchange (is_err()).
LoopExit_OnErr(r) == ~r.ok

\* A variant of LoopExit that leaves the loop on any successful exchange (is_ok()).
LoopExit_OnOk(r) == r.ok

\* A variant of LoopExit with the negation of the loop condition lost
\* (`while cas.is_ok_and(..)`): the loop is left on any other result.
LoopExit_Negated(r) == ~(r.ok /\ (r.val = TRUE))

\* The loop of lock runs `while !cas.is_ok_and(|v| v == true)`: it is left
\* when the result is Ok(v) with v == true.
LoopExit(r) == r.ok /\ (r.val = TRUE)

\* A variant of DropFlag: drop stores true.
DropFlag_StoresTrue == TRUE

\* The value Guard::drop stores into the flag.
DropFlag == FALSE

Holding(t) == pc[t] \in {"guard", "write", "drop"}
InLock(t) == pc[t] \in {"cas", "test", "spin"}
Holders == {t \in Threads : Holding(t)}

Init ==
    \E s \in Scenarios :
        /\ scenario = [name |-> s.name, m |-> s.m]
        /\ lock = New(s.data).lock
        /\ data = New(s.data).data
        /\ prev = s.data
        /\ todo = s.todo
        /\ pc = [t \in Threads |-> "idle"]
        /\ res = [t \in Threads |-> <<>>]
        /\ seen = [t \in Threads |-> <<>>]
        /\ fresh = [t \in Threads |-> TRUE]
        /\ relFresh = TRUE
        /\ raced = FALSE
        /\ nAcquired = 0
        /\ nReleased = 0

(***************************************************************************)
(* SpinMutex::lock                                                         *)
(***************************************************************************)
\* A thread with a critical section left to run calls lock.
Lock(t) ==
    /\ pc[t] = "idle"
    /\ todo[t] # <<>>
    /\ pc' = [pc EXCEPT ![t] = "cas"]
    /\ UNCHANGED <<lock, data, prev, res, seen, todo, fresh, relFresh, raced,
                   nAcquired, nReleased, scenario>>

\* One compare_exchange(false, true, Release, Relaxed) on the flag.
CompareExchange(t) ==
    /\ pc[t] = "cas"
    /\ LET r == LockCas(lock)
           o == IF r.ok THEN LockSuccessOrdering ELSE LockFailureOrdering
           f == fresh[t] \/ (HasAcquire(o) /\ relFresh)
       IN  /\ lock' = r.flag
           /\ res' = [res EXCEPT ![t] = <<[ok |-> r.ok, val |-> r.val]>>]
           /\ fresh' = [fresh EXCEPT ![t] = f]
           /\ relFresh' = IF r.ok THEN relFresh \/ (HasRelease(o) /\ f) ELSE relFresh
           /\ nAcquired' = IF r.ok THEN nAcquired + 1 ELSE nAcquired
    /\ pc' = [pc EXCEPT ![t] = "test"]
    /\ UNCHANGED <<data, prev, seen, todo, raced, nReleased, scenario>>

\* The loop condition: leave the loop and build the guard
\* (SpinMutexGuard::from), or go on to the spin hint.
LoopTest(t) ==
    /\ pc[t] = "test"
    /\ pc' = [pc EXCEPT ![t] = IF LoopExit(res[t][1]) THEN "guard" ELSE "spin"]
    /\ UNCHANGED <<lock, data, prev, res, seen, todo, fresh, relFresh, raced,
                   nAcquired, nReleased, scenario>>

\* std::hint::spin_loop(), then the next iteration.
SpinLoop(t) ==
    /\ pc[t] = "spin"
    /\ pc' = [pc EXCEPT ![t] = "cas"]
    /\ UNCHANGED <<lock, data, prev, res, seen, todo, fresh, relFresh, raced,
                   nAcquired, nReleased, scenario>>

(***************************************************************************)
(* SpinMutexGuard                                                          *)
(***************************************************************************)
\* SpinMutexGuard::from called directly (it is pub(crate)): a guard built
\* without going through lock; the flag is not touched.
FromDirect(t) ==
    /\ pc[t] = "idle"
    /\ todo[t] # <<>>
    /\ pc' = [pc EXCEPT ![t] = "guard"]
    /\ UNCHANGED <<lock, data, prev, res, seen, todo, fresh, relFresh, raced,
                   nAcquired, nReleased, scenario>>

\* What a plain read of data yields: the latest write when the reader is
\* synchronised with it, otherwise (a data race) the old or the new value.
ReadValues(t) == IF fresh[t] THEN {data} ELSE {data, prev}

\* Guard::deref: read the payload (a "get" section, or the read half of `*guard += 1`).
Deref(t) ==
    /\ pc[t] = "guard"
    /\ Head(todo[t]).kind \in {"get", "inc"}
    /\ \E v \in ReadValues(t) : seen' = [seen EXCEPT ![t] = <<v>>]
    /\ raced' = (raced \/ ~fresh[t])
    /\ pc' = [pc EXCEPT ![t] = IF Head(todo[t]).kind = "get" THEN "drop" ELSE "write"]
    /\ UNCHANGED <<lock, data, prev, res, todo, fresh, relFresh, nAcquired,
                   nReleased, scenario>>

\* Guard::deref_mut: write the payload (a "set" section, or the write half of `*guard += 1`).
DerefMut(t) ==
    /\ \/ pc[t] = "guard" /\ Head(todo[t]).kind = "set"
       \/ pc[t] = "write"
    /\ data' = IF Head(todo[t]).kind = "set" THEN Head(todo[t]).val ELSE seen[t][1] + 1
    /\ prev' = data
    /\ raced' = (raced \/ ~fresh[t])
    /\ fresh' = [u \in Threads |-> u = t]
    /\ relFresh' = FALSE
    /\ pc' = [pc EXCEPT ![t] = "drop"]
    /\ UNCHANGED <<lock, res, seen, todo, nAcquired, nReleased, scenario>>

\* Guard::drop: self.lock.store(false, Release); the critical section is over.
Drop(t) ==
    /\ pc[t] = "drop"
    /\ lock' = DropFlag
    /\ relFresh' = (HasRelease(DropStoreOrdering) /\ fresh[t])
    /\ nReleased' = nReleased + 1
    /\ todo' = [todo EXCEPT ![t] = Tail(@)]
    /\ pc' = [pc EXCEPT ![t] = "idle"]
    /\ UNCHANGED <<data, prev, res, seen, fresh, raced, nAcquired, scenario>>

(***************************************************************************)
(* Specifications.                                                         *)
(***************************************************************************)
\* The steps of lock itself.
LockStep(t) == Lock(t) \/ CompareExchange(t) \/ LoopTest(t) \/ SpinLoop(t)

\* The steps of a thread that holds a guard.
GuardStep(t) == Deref(t) \/ DerefMut(t) \/ Drop(t)

\* Clients of the public interface (new, lock): every guard comes from lock.
NextClient == \E t \in Threads : LockStep(t) \/ GuardStep(t)
SpecClient == Init /\ [][NextClient]_vars

\* SpecClient without the guard steps.  No guard step is ever enabled in
\* SpecClient (NoGuardStepEnabled below is an invariant of it), so both
\* specifications have the same behaviours.
Next == \E t \in Threads : LockStep(t)
Spec == Init /\ [][Next]_vars
FairSpec == Spec /\ \A t \in Threads : WF_vars(LockStep(t))

\* Crate-internal clients as well: guards also built with SpinMutexGuard::from.
NextGuard == \E t \in Threads : LockStep(t) \/ FromDirect(t) \/ GuardStep(t)
SpecGuard == Init /\ [][NextGuard]_vars
FairSpecGuard ==
    SpecGuard /\ \A t \in Threads : WF_vars(LockStep(t) \/ FromDirect(t) \/ GuardStep(t))

NoGuardStepEnabled == \A t \in Threads : ~Holding(t)

(***************************************************************************)
(* Properties.                                                             *)
(***************************************************************************)
AllDone == \A t \in Threads : pc[t] = "idle" /\ todo[t] = <<>>

\* A thread whose compare_exchange has just succeeded and which has not yet
\* evaluated the loop condition.
JustWon(t) == pc[t] = "test" /\ res[t][1].ok

\* C1: with any number of threads in lock on one mutex, at most one thread
\* holds a live guard at any time.
C1_MutualExclusion == Cardinality(Holders) <= 1

\* C1 case: two threads are inside lock at once, one compare_exchange has
\* succeeded (the flag is set) and the other has failed.
C1_Contended ==
    \E a, b \in Threads :
        /\ a # b /\ InLock(a) /\ InLock(b) /\ lock = TRUE
        /\ res[a] = <<[ok |-> TRUE, val |-> FALSE]>>
        /\ res[b] = <<[ok |-> FALSE, val |-> TRUE]>>

\* C2: lock spins only until its compare_exchange succeeds: a thread reaches
\* the spin hint (stays in the loop) only after a failed compare_exchange.
C2_SuccessLeavesLoop == \A t \in Threads : pc[t] = "spin" => ~res[t][1].ok

\* C3: whenever thread a holds the guard while thread b is inside lock, b
\* eventually holds the guard (a drops after a finite hold, b keeps running).
C3_WaiterEventuallyAcquires ==
    \A a, b \in Threads :
        (a # b) => ((Holding(a) /\ InLock(b)) ~> Holding(b))

\* C5: a guard's drop leaves the flag Unlocked, whatever it was before.
C5_DropUnlocks ==
    [][\A t \in Threads : (pc[t] = "drop" /\ pc'[t] = "idle") => lock' = FALSE]_vars

\* C5 case: the only drop so far followed the only successful
\* compare_exchange, so it ran with the flag Locked, and the flag is now Unlocked.
C5_Dropped == nAcquired = 1 /\ nReleased = 1 /\ lock = FALSE

\* C6: every successful acquisition of the flag is matched by exactly one
\* release: each one has either been released once already or belongs to
\* exactly one thread that holds (or is about to be handed) the guard.
C6_ExactlyOnceRelease ==
    nAcquired = nReleased + Cardinality(Holders)
                  + Cardinality({t \in Threads : JustWon(t)})

\* C7: in the counter workload (N threads, m guarded increments each, counter
\* starting at 0) all threads finish and the counter ends at N * m.
C7_FinalCount ==
    (scenario.name = "counter") => <>(AllDone /\ data = NumThreads * scenario.m)

\* C8: in the reuse workload ("a", then one thread locks and writes "b", drops,
\* locks again and writes "c", drops) both lock calls return and the run ends
\* with the value "c" and the flag Unlocked.
C8_ReuseFinal ==
    (scenario.name = "reuse") => <>(AllDone /\ data = 99 /\ lock = FALSE)

\* C9: in tests::it_works thread 1's lock returns and it reads a value, and
\* when thread 2 has completed its write of 5 by then, the value read is 5.
C9_AssertPasses ==
    (scenario.name = "it_works") =>
        /\ <>(seen[1] # <<>>)
        /\ [](pc[1] = "drop" /\ todo[2] = <<>> /\ pc[2] = "idle" => seen[1] = <<5>>)

\* C10: a successful compare_exchange in lock has acquire semantics: the
\* step makes the acquirer's view include whatever the previous holder's
\* release published with the flag value it read.
C10_AcquireSynchronizes ==
    [][\A t \in Threads :
          (pc[t] = "cas" /\ pc'[t] = "test" /\ res'[t][1].ok /\ relFresh)
              => fresh'[t]]_vars

\* C11: with finite workloads and fair scheduling every lock call eventually
\* returns a guard, whichever thread makes it (no order among waiters).
C11_EveryCallReturns == \A t \in Threads : InLock(t) ~> Holding(t)

\* C12: there is no timeout: a compare_exchange made while the flag is Locked
\* fails and leaves it Locked, and a caller whose attempt failed never gets a
\* guard and never ends in an error: its only next step is the spin hint.
C12_NoReturnWhileLocked ==
    [][\A t \in Threads :
          /\ (pc[t] = "cas" /\ lock /\ pc'[t] # "cas")
                => (pc'[t] = "test" /\ ~res'[t][1].ok /\ lock')
          /\ (pc[t] = "test" /\ ~res[t][1].ok /\ pc'[t] # "test")
                => pc'[t] = "spin"]_vars

\* C12 case: a guard is outstanding, the flag is Locked, and another thread
\* is spinning in lock after a failed attempt.
C12_SpinningOnHeld ==
    \E a, b \in Threads :
        /\ a # b /\ Holding(a) /\ lock = TRUE
        /\ pc[b] = "spin" /\ res[b] = <<[ok |-> FALSE, val |-> TRUE]>>

\* The value the run's workload passed to new.
NewArgument ==
    (CHOOSE s \in Scenarios : s.name = scenario.name /\ s.m = scenario.m).data

\* C14: right after new(value), before any thread has taken a step, the flag
\* is Unlocked and the payload is the value given, for every value given.
C14_NewUnlockedWithValue ==
    (\A t \in Threads : pc[t] = "idle" /\ res[t] = <<>>) /\ nReleased = 0
        => (lock = FALSE /\ data = NewArgument)

\* C14 case: a mutex just built by new("a"), no thread has run yet.
C14_JustBuilt ==
    /\ \A t \in Threads : pc[t] = "idle" /\ res[t] = <<>>
    /\ nReleased = 0 /\ lock = FALSE /\ data = 97

\* The threads whose latest compare_exchange reported success.
Winners == {t \in Threads : res[t] # <<>> /\ res[t][1].ok}

\* C16: of the callers racing in lock for one Unlocked-to-Locked transition
\* exactly one compare_exchange reports success: there are never more
\* successes than releases plus one, and as long as nothing has been released
\* the flag is Locked exactly when one exchange has succeeded and at most one
\* thread holds a success result.
C16_OneWinnerPerTransition ==
    /\ nAcquired <= nReleased + 1
    /\ (nReleased = 0 => ((lock <=> nAcquired = 1) /\ Cardinality(Winners) <= 1))

\* C16 case: two callers raced on the Unlocked flag; one exchange succeeded,
\* the other failed and that caller is on its way to retry.
C16_RaceDecided ==
    \E a, b \in Threads :
        /\ a # b /\ Winners = {a} /\ nAcquired = 1
        /\ pc[b] = "spin" /\ res[b] = <<[ok |-> FALSE, val |-> TRUE]>>


\* The two kinds of step that change the flag: a successful compare_exchange
\* inside lock, and a guard's drop.
AcquireFlip == \E t \in Threads :
    /\ pc[t] = "cas" /\ pc'[t] = "test" /\ res'[t][1].ok
    /\ lock = FALSE /\ lock' = TRUE
ReleaseFlip == \E t \in Threads :
    /\ pc[t] = "drop" /\ pc'[t] = "idle"
    /\ lock = TRUE /\ lock' = FALSE

\* C17: the flag changes only by a successful compare_exchange inside lock
\* (Unlocked to Locked) or by a guard's drop (Locked to Unlocked); no other
\* step of any thread changes it.
C17_FlagChangesOnlyByCasOrDrop == [][lock' # lock => (AcquireFlip \/ ReleaseFlip)]_vars

\* C17 case: the flag has gone Unlocked, Locked, Unlocked, Locked: two
\* successful exchanges with a drop in between.
C17_FlippedBothWays == nAcquired = 2 /\ nReleased >= 1 /\ lock = TRUE

\* C18: Locked is not absorbing: whenever the flag is Locked it is later
\* Unlocked again (the holder drops its guard), so the flag keeps cycling.
C18_LockedNotAbsorbing == lock ~> ~lock

\* Once Locked through lock alone the flag stays Locked.
LockedStaysLocked == [][lock => lock']_vars

\* C19: lock leaves its loop only on Ok(true), which compare_exchange(false,
\* true) never returns: no result a thread holds meets the exit condition, a
\* successful exchange reports the previous value false, no lock call returns
\* (no thread holds a guard), and nothing is ever dropped.
C19_LockNeverReturns ==
    /\ \A t \in Threads :
          /\ ~Holding(t)
          /\ res[t] # <<>> =>
                /\ ~LoopExit(res[t][1])
                /\ (res[t][1].ok => res[t][1].val = FALSE)
    /\ nReleased = 0

\* C19 case: a thread whose exchange succeeded is back in the loop, spinning.
C19_WinnerSpins ==
    \E t \in Threads : pc[t] = "spin" /\ res[t] = <<[ok |-> TRUE, val |-> FALSE]>>

\* A compare_exchange step of thread t that finds the flag Locked.
FailedAttempt(t) == pc[t] = "cas" /\ pc'[t] = "test" /\ lock = TRUE

\* C20: a failed acquisition attempt (the exchange finds the flag Locked)
\* reports failure, leaves the flag and the protected value unchanged and
\* leaves every other thread's state unchanged; the caller then goes round
\* the loop to the next attempt.
C20_FailedAttemptChangesNothing == [][\A t \in Threads :
      /\ FailedAttempt(t) =>
            /\ res'[t] = <<[ok |-> FALSE, val |-> TRUE]>>
            /\ lock' = lock /\ data' = data /\ prev' = prev
            /\ seen'[t] = seen[t] /\ todo'[t] = todo[t]
            /\ \A u \in Threads \ {t} :
                  /\ pc'[u] = pc[u] /\ res'[u] = res[u]
                  /\ seen'[u] = seen[u] /\ todo'[u] = todo[u]
                  /\ fresh'[u] = fresh[u]
      /\ (res[t] = <<[ok |-> FALSE, val |-> TRUE]>> /\ pc[t] \in {"test", "spin"}
            /\ pc'[t] # pc[t]) =>
            pc'[t] = (IF pc[t] = "test" THEN "spin" ELSE "cas")]_vars

\* C20 case: a thread whose attempt failed is back at the exchange for its
\* next attempt, the flag still Locked and the value already written by a
\* guard.
C20_Retrying ==
    \E t \in Threads :
        /\ pc[t] = "cas" /\ res[t] = <<[ok |-> FALSE, val |-> TRUE]>>
        /\ lock = TRUE /\ data # NewArgument
====
